---- MODULE Spec2Model ----
(***************************************************************************)
(* A model of version_check (src/src/lib.rs): the parsing of the output of *)
(* `rustc --verbose --version` and the queries built on it.                *)
(*                                                                         *)
(* A Rust &str is a sequence of one-character strings.  Option<T> is a     *)
(* sequence of length at most one: None is << >> and Some(x) is << x >>.   *)
(* The texts contain no carriage return, so str::lines splits on "\n"      *)
(* alone.                                                                  *)
(***************************************************************************)
EXTENDS Integers, Sequences, FiniteSets, TLC

VARIABLES
    out,      \* what running rustc yields: None (failure) or Some(stdout text)
    noise,    \* lines printed before the text (diagnostics)
    bound,    \* the string a build script passes to an is_* query
    pc,       \* "idle", or "verbose" while the verbose parse walks the lines
    rest,     \* the lines the verbose parse has not looked at yet
    version,  \* the verbose parse's `version` accumulator
    date,     \* the verbose parse's `date` accumulator
    ret       \* per operation: whether it returned, what, and how often it ran rustc

vars == <<out, noise, bound, pc, rest, version, date, ret>>

-----------------------------------------------------------------------------
(* Option<T> *)

None == << >>
Some(x) == << x >>
IsSome(o) == o # None

\* Option::or (OrLast: the wrong way round, the second operand preferred)
OrLast(a, b) == IF IsSome(b) THEN b ELSE a
Or(a, b) == IF IsSome(a) THEN a ELSE b

-----------------------------------------------------------------------------
(* &str *)

Whitespace == {" ", "\t", "\n"}

StartsWith(s, p) == Len(s) >= Len(p) /\ SubSeq(s, 1, Len(p)) = p
EndsWith(s, p) == Len(s) >= Len(p) /\ SubSeq(s, Len(s) - Len(p) + 1, Len(s)) = p

\* str::find: the least i >= from with s[i .. i + Len(p) - 1] = p, or 0.
RECURSIVE FindFrom(_, _, _)
FindFrom(s, p, from) ==
    IF from + Len(p) - 1 > Len(s) THEN 0
    ELSE IF SubSeq(s, from, from + Len(p) - 1) = p THEN from
    ELSE FindFrom(s, p, from + 1)

Find(s, p) == FindFrom(s, p, 1)

Contains(s, p) == Find(s, p) # 0

\* str::split on a one-character pattern: every piece, empty ones included.
\* (i is where the first c stands in s, or 0.)
RECURSIVE Split(_, _)
SplitAt(s, c, i) ==
    IF i = 0 THEN <<s>>
    ELSE <<SubSeq(s, 1, i - 1)>> \o Split(SubSeq(s, i + 1, Len(s)), c)
Split(s, c) == SplitAt(s, c, Find(s, <<c>>))

\* str::lines: split at "\n"; a final line ending adds no empty line.
DropFinalEmpty(pieces) ==
    IF pieces[Len(pieces)] = <<>> THEN SubSeq(pieces, 1, Len(pieces) - 1) ELSE pieces
Lines(s) == DropFinalEmpty(Split(s, "\n"))

RECURSIVE TrimLeftIn(_, _)
TrimLeftIn(s, cs) ==
    IF s # <<>> /\ Head(s) \in cs THEN TrimLeftIn(Tail(s), cs) ELSE s

RECURSIVE TrimRightIn(_, _)
TrimRightIn(s, cs) ==
    IF s # <<>> /\ s[Len(s)] \in cs THEN TrimRightIn(SubSeq(s, 1, Len(s) - 1), cs) ELSE s

TrimLeft(s) == TrimLeftIn(s, Whitespace)
TrimRight(s) == TrimRightIn(s, Whitespace)
Trim(s) == TrimLeft(TrimRight(s))
TrimLeftMatches(s, c) == TrimLeftIn(s, {c})
TrimRightMatches(s, c) == TrimRightIn(s, {c})

\* The texts of the line prefixes and the sentinel the verbose parse looks for.
RustcSp == <<"r", "u", "s", "t", "c", " ">>
Rustc == <<"r", "u", "s", "t", "c">>
ReleaseLabel == <<"r", "e", "l", "e", "a", "s", "e", ":", " ">>
CommitDateLabel == <<"c", "o", "m", "m", "i", "t", "-", "d", "a", "t", "e", ":", " ">>
Unknown == <<"u", "n", "k", "n", "o", "w", "n">>
ColonSp == <<":", " ">>

-----------------------------------------------------------------------------
(* version_and_date_from_rustc_version *)

ClosesParen(c) == EndsWith(c, <<")">>)

\* Iterator::next / Iterator::last, then unwrap_or(s)
\* (FirstLineOf is the reading "the first line", which the code does not take.)
FirstOr(ls, s) == IF ls = <<>> THEN s ELSE ls[1]
LastOr(ls, s) == IF ls = <<>> THEN s ELSE ls[Len(ls)]
FirstLineOf(s) == FirstOr(Lines(s), s)
LastLineOf(s) == LastOr(Lines(s), s)

\* s.lines().last().unwrap_or(s)
HeaderLineOf(s) == LastLineOf(s)

\* .map(|s| s.trim_right().trim_right_matches(")").trim_left().trim_left_matches('('))
\* (DateKeepParens: the variant that only trims whitespace.)
DateKeepParens(c) == Trim(c)
DateOfComponent(c) ==
    TrimLeftMatches(TrimLeft(TrimRightMatches(TrimRight(c), ")")), "(")

\* components.filter(|c| c.ends_with(')')).next().map(...)
DateOfClosing(closing) ==
    IF closing = <<>> THEN None ELSE Some(DateOfComponent(closing[1]))

\* components.nth(1) takes the first two components; the date is looked for
\* in those after them.
VersionAndDateOf(components) ==
    IF Len(components) >= 2
    THEN << Some(components[2]),
            DateOfClosing(SelectSeq(SubSeq(components, 3, Len(components)), ClosesParen)) >>
    ELSE <<None, None>>

version_and_date_from_rustc_version(s) ==
    VersionAndDateOf(Split(Trim(HeaderLineOf(s)), " "))

-----------------------------------------------------------------------------
(* version_and_date_from_rustc_verbose_version *)

\* line.starts_with("rustc ")
\* (IsHeaderNoSpace: the variant that does not ask for the space.)
IsHeaderNoSpace(line) == StartsWith(line, Rustc)
IsHeader(line) == StartsWith(line, RustcSp)

IsRelease(line) == StartsWith(line, ReleaseLabel)
IsCommitDate(line) == StartsWith(line, CommitDateLabel)

\* |s| s.splitn(2, ": ").nth(1)
SplitOnceAt(s, i) == IF i = 0 THEN None ELSE Some(SubSeq(s, i + 2, Len(s)))
split(s) == SplitOnceAt(s, Find(s, ColonSp))

\* version = version.or(v); date = date.or(d)
\* (AdoptHeaderLast: the variant where a later header overrides.)
AdoptHeaderLast(acc, vd) == <<OrLast(acc[1], vd[1]), OrLast(acc[2], vd[2])>>
AdoptHeader(acc, vd) == <<Or(acc[1], vd[1]), Or(acc[2], vd[2])>>

\* date = if line.ends_with("unknown") { None } else { split(line) }
CommitDateOf(line) == IF EndsWith(line, Unknown) THEN None ELSE split(line)

\* version = split(line)
\* (AdoptReleaseIfUnset: the variant where a release line only fills a gap.)
AdoptReleaseIfUnset(acc, line) == <<Or(acc[1], split(line)), acc[2]>>
AdoptRelease(acc, line) == <<split(line), acc[2]>>

\* The body of `for line in s.lines()`, on the accumulator <<version, date>>.
VerboseLineStep(acc, line) ==
    IF IsHeader(line)
    THEN AdoptHeader(acc, version_and_date_from_rustc_version(line))
    ELSE IF IsRelease(line) THEN AdoptRelease(acc, line)
    ELSE IF IsCommitDate(line) THEN <<acc[1], CommitDateOf(line)>>
    ELSE acc

RECURSIVE VerboseFold(_, _)
VerboseFold(acc, ls) ==
    IF ls = <<>> THEN acc ELSE VerboseFold(VerboseLineStep(acc, Head(ls)), Tail(ls))

version_and_date_from_rustc_verbose_version(s) == VerboseFold(<<None, None>>, Lines(s))

-----------------------------------------------------------------------------
(* The texts the operations are run on: tokens and lines of the crate's    *)
(* tests (src/src/lib.rs, mod tests), and the lines built from them.       *)

V_1_18_0 == <<"1", ".", "1", "8", ".", "0">>
V_1_20_0_nightly == <<"1", ".", "2", "0", ".", "0", "-", "n", "i", "g", "h", "t", "l", "y">>
V_1_20 == <<"1", ".", "2", "0">>
V_1 == <<"1">>
V_1_5_1_beta == <<"1", ".", "5", ".", "1", "-", "b", "e", "t", "a">>
V_1_50_0 == <<"1", ".", "5", "0", ".", "0">>
D_2017_07_09 == <<"2", "0", "1", "7", "-", "0", "7", "-", "0", "9">>
D_2018_09_20 == <<"2", "0", "1", "8", "-", "0", "9", "-", "2", "0">>
D_2021_02_10 == <<"2", "0", "2", "1", "-", "0", "2", "-", "1", "0">>
Hash_d84693b93 == <<"d", "8", "4", "6", "9", "3", "b", "9", "3">>
Hash_cb75ad5db == <<"c", "b", "7", "5", "a", "d", "5", "d", "b">>
WarningLine == <<"w", "a", "r", "n", "i", "n", "g", ":", " ", "i", "n", "v", "a", "l", "i", "d">>
RustcNoteLine == <<"r", "u", "s", "t", "c", ":", " ", "n", "o", "t", "e">>
BinaryLine == <<"b", "i", "n", "a", "r", "y", ":", " ", "r", "u", "s", "t", "c">>
EmptyLine == <<>>
V_1_20_0 == <<"1", ".", "2", "0", ".", "0">>
V_1_20_0_dev == <<"1", ".", "2", "0", ".", "0", "-", "d", "e", "v">>
V_1_20_0_beta == <<"1", ".", "2", "0", ".", "0", "-", "b", "e", "t", "a">>
V_1_20_0_dev_beta == <<"1", ".", "2", "0", ".", "0", "-", "d", "e", "v", "-", "b", "e", "t", "a">>
V_1_20_0_dev_beta_nightly == <<"1", ".", "2", "0", ".", "0", "-", "d", "e", "v", "-", "b", "e", "t", "a", "-", "n", "i", "g", "h", "t", "l", "y">>
V_1_9_0_beta == <<"1", ".", "9", ".", "0", "-", "b", "e", "t", "a">>
V_1_10_0 == <<"1", ".", "1", "0", ".", "0">>
V_1_49_0 == <<"1", ".", "4", "9", ".", "0">>
V_1_50_0_nightly == <<"1", ".", "5", "0", ".", "0", "-", "n", "i", "g", "h", "t", "l", "y">>
D_2016_12_18 == <<"2", "0", "1", "6", "-", "1", "2", "-", "1", "8">>
D_2017_01_09 == <<"2", "0", "1", "7", "-", "0", "1", "-", "0", "9">>
D_2020_01_01 == <<"2", "0", "2", "0", "-", "0", "1", "-", "0", "1">>
NotADate == <<"n", "o", "t", "-", "a", "-", "d", "a", "t", "e">>
Nightly == <<"n", "i", "g", "h", "t", "l", "y">>
Beta == <<"b", "e", "t", "a">>
Dev == <<"d", "e", "v">>
DateUnknown == <<"d", "a", "t", "e", "-", "u", "n", "k", "n", "o", "w", "n">>

\* "rustc V", "rustc V (D)" and "rustc V (HASH D)"
HeaderBare(V) == RustcSp \o V
HeaderDate(V, D) == RustcSp \o V \o <<" ", "(">> \o D \o <<")">>
HeaderHash(V, H, D) == RustcSp \o V \o <<" ", "(">> \o H \o <<" ">> \o D \o <<")">>

ReleaseLine(V) == ReleaseLabel \o V
CommitDateLine(D) == CommitDateLabel \o D

\* The sequences over S of length at most n.
SeqsUpTo(S, n) == UNION {[1..k -> S] : k \in 0..n}

\* Lines joined by "\n", no line ending after the last.
RECURSIVE JoinLines(_)
JoinLines(ls) ==
    IF ls = <<>> THEN <<>>
    ELSE IF Len(ls) = 1 THEN ls[1]
    ELSE ls[1] \o <<"\n">> \o JoinLines(Tail(ls))

\* Lines each ended by "\n".
RECURSIVE EndLines(_)
EndLines(ls) == IF ls = <<>> THEN <<>> ELSE ls[1] \o <<"\n">> \o EndLines(Tail(ls))

-----------------------------------------------------------------------------
(* Bounds *)

MaxSimpleLines == 2
MaxVerboseLines == 3
MaxNoise == 1

-----------------------------------------------------------------------------
(* What an operation returned *)

Queries ==
    {"is_min_date", "is_max_date", "is_exact_date",
     "is_min_version", "is_max_version", "is_exact_version"}

Ops == {"simple", "verbose", "triple", "is_feature_flaggable"} \cup Queries

NotRun == [ran |-> FALSE, val |-> None, calls |-> 0]
Returned(v, n) == [ran |-> TRUE, val |-> v, calls |-> n]

\* The text rustc printed (out is Some).
Text == out[1]

\* The text with the noise lines before it.
NoisyText == EndLines(noise) \o Text

-----------------------------------------------------------------------------
(* The simple parse, applied to one text *)

VersionTokens == {V_1_18_0, V_1_20_0_nightly, V_1_20, V_1, V_1_5_1_beta}
DateTokens == {D_2017_07_09, D_2018_09_20}
HashTokens == {Hash_d84693b93}

WellFormedHeaders ==
    {HeaderBare(V) : V \in VersionTokens}
    \cup {HeaderDate(V, D) : V \in VersionTokens, D \in DateTokens}
    \cup {HeaderHash(V, H, D) : V \in VersionTokens, H \in HashTokens, D \in DateTokens}

SimpleLib == WellFormedHeaders \cup {WarningLine, EmptyLine, Rustc}

SimpleTexts == {JoinLines(ls) : ls \in SeqsUpTo(SimpleLib, MaxSimpleLines) \ {<<>>}}

InitSimple ==
    /\ out \in {Some(s) : s \in SimpleTexts}
    /\ noise = <<>>
    /\ bound = <<>>
    /\ pc = "idle"
    /\ rest = <<>>
    /\ version = None
    /\ date = None
    /\ ret = [o \in Ops |-> NotRun]

SimpleParse ==
    /\ pc = "idle"
    /\ ~ret["simple"].ran
    /\ ret' = [ret EXCEPT !["simple"] = Returned(version_and_date_from_rustc_version(Text), 0)]
    /\ UNCHANGED <<out, noise, bound, pc, rest, version, date>>

NextSimple == SimpleParse

SpecSimple == InitSimple /\ [][NextSimple]_vars

-----------------------------------------------------------------------------
(* The verbose parse, one line of the loop at a time *)

VerboseLib ==
    { HeaderHash(V_1_50_0, Hash_cb75ad5db, D_2021_02_10),
      HeaderDate(V_1_18_0, D_2017_07_09),
      HeaderBare(V_1_20_0_nightly),
      RustcSp,
      ReleaseLine(V_1_50_0),
      ReleaseLine(V_1_5_1_beta),
      CommitDateLine(D_2021_02_10),
      CommitDateLine(Unknown),
      CommitDateLine(DateUnknown) }

NoiseLib == {WarningLine, RustcNoteLine}

VerboseTexts == {JoinLines(ls) : ls \in SeqsUpTo(VerboseLib, MaxVerboseLines)}

InitVerbose ==
    /\ out \in {Some(s) : s \in VerboseTexts}
    /\ noise \in SeqsUpTo(NoiseLib, MaxNoise)
    /\ bound = <<>>
    /\ pc = "idle"
    /\ rest = <<>>
    /\ version = None
    /\ date = None
    /\ ret = [o \in Ops |-> NotRun]

\* let mut version = None; let mut date = None; for line in s.lines()
VerboseBegin ==
    /\ pc = "idle"
    /\ ~ret["verbose"].ran
    /\ pc' = "verbose"
    /\ rest' = Lines(NoisyText)
    /\ version' = None
    /\ date' = None
    /\ UNCHANGED <<out, noise, bound, ret>>

VerboseLine ==
    /\ pc = "verbose"
    /\ rest # <<>>
    /\ LET acc == VerboseLineStep(<<version, date>>, Head(rest))
       IN version' = acc[1] /\ date' = acc[2]
    /\ rest' = Tail(rest)
    /\ UNCHANGED <<out, noise, bound, pc, ret>>

\* (version, date)
VerboseReturn ==
    /\ pc = "verbose"
    /\ rest = <<>>
    /\ pc' = "idle"
    /\ ret' = [ret EXCEPT !["verbose"] = Returned(<<version, date>>, 0)]
    /\ UNCHANGED <<out, noise, bound, rest, version, date>>

NextVerbose == VerboseBegin \/ VerboseLine \/ VerboseReturn

SpecVerbose == InitVerbose /\ [][NextVerbose]_vars

-----------------------------------------------------------------------------
(* Version, Date and Channel (mod version, mod date, mod channel) *)

U16Max == 65535
U8Max == 255

Digits == <<"0", "1", "2", "3", "4", "5", "6", "7", "8", "9">>
IsDigit(c) == \E i \in 1..10 : Digits[i] = c
DigitValue(c) == (CHOOSE i \in 1..10 : Digits[i] = c) - 1

RECURSIVE NatValue(_)
NatValue(tok) ==
    IF tok = <<>> THEN 0
    ELSE 10 * NatValue(SubSeq(tok, 1, Len(tok) - 1)) + DigitValue(tok[Len(tok)])

\* A token that parses as a non-negative integer of at most `max`.
ParseNat(tok, max) ==
    IF tok # <<>> /\ (\A i \in 1..Len(tok) : IsDigit(tok[i])) /\ NatValue(tok) <= max
    THEN Some(NatValue(tok))
    ELSE None

\* Exactly three numbers, or nothing.
ThreeOf(nums) ==
    IF Len(nums) = 3 /\ \A i \in 1..3 : IsSome(nums[i])
    THEN Some(<<nums[1][1], nums[2][1], nums[3][1]>>)
    ELSE None

VersionNumbers(toks) == [i \in 1..Len(toks) |-> ParseNat(toks[i], U16Max)]
DateNumbers(toks) ==
    [i \in 1..Len(toks) |-> ParseNat(toks[i], IF i = 1 THEN U16Max ELSE U8Max)]

\* Version::parse: the text before the first '-', split on '.', three numbers.
VersionParse(text) == ThreeOf(VersionNumbers(Split(Split(text, "-")[1], ".")))

\* Date::parse: split on '-', three numbers: year, month, day.
DateParse(text) == ThreeOf(DateNumbers(Split(text, "-")))

\* Channel::parse: nightly, then beta, then dev, else stable.
ChannelParse(text) ==
    IF Contains(text, Nightly) THEN Some("Nightly")
    ELSE IF Contains(text, Beta) THEN Some("Beta")
    ELSE IF Contains(text, Dev) THEN Some("Dev")
    ELSE Some("Stable")

\* Channel::supports_features
SupportsFeatures(c) == c \in {"Nightly", "Dev"}

\* The orderings of Version and of Date: the numeric triple, lexicographically.
Lt3(a, b) ==
    \/ a[1] < b[1]
    \/ a[1] = b[1] /\ a[2] < b[2]
    \/ a[1] = b[1] /\ a[2] = b[2] /\ a[3] < b[3]
Ge3(a, b) == ~Lt3(a, b)
Le3(a, b) == ~Lt3(b, a)
Eq3(a, b) == a = b

-----------------------------------------------------------------------------
(* get_version_and_date, the reads and the queries *)

\* Command::new(rustc) ... .map(|s| version_and_date_from_rustc_verbose_version(&s))
get_version_and_date ==
    IF out = None THEN None ELSE Some(version_and_date_from_rustc_verbose_version(Text))

\* Version::read, Date::read, Channel::read: the text rustc gives, parsed.
VersionTextOf(vd) == IF vd = None THEN None ELSE vd[1][1]
DateTextOf(vd) == IF vd = None THEN None ELSE vd[1][2]

VersionOfText(v) == IF v = None THEN None ELSE VersionParse(v[1])
DateOfText(d) == IF d = None THEN None ELSE DateParse(d[1])
ChannelOfText(v) == IF v = None THEN None ELSE ChannelParse(v[1])

VersionRead == VersionOfText(VersionTextOf(get_version_and_date))
DateRead == DateOfText(DateTextOf(get_version_and_date))
ChannelRead == ChannelOfText(VersionTextOf(get_version_and_date))

\* match Version::parse(..) { Some(version) => match Channel::parse(..) {
\*     Some(channel) => match Date::parse(..) { Some(date) => Some((..)), ..
AllThree(v, c, d) ==
    IF IsSome(v) /\ IsSome(c) /\ IsSome(d) THEN Some(<<v[1], c[1], d[1]>>) ELSE None

\* (TripleOfChannelFromDate: the variant that classifies the date string.)
TripleOfChannelFromDate(version_str, date_str) ==
    AllThree(VersionParse(version_str), ChannelParse(date_str), DateParse(date_str))
TripleOf(version_str, date_str) ==
    AllThree(VersionParse(version_str), ChannelParse(version_str), DateParse(date_str))

\* Some((Some(version), Some(date))) => (version, date), _ => return None
TripleOfRead(vd) ==
    IF IsSome(vd) /\ IsSome(vd[1][1]) /\ IsSome(vd[1][2])
    THEN TripleOf(vd[1][1][1], vd[1][2][1])
    ELSE None

triple == TripleOfRead(get_version_and_date)

\* (Some(a), Some(b)) => Some(a >= b), _ => None; and so for <= and ==
\* (BothGt and BothGeOrFalse are the variants "strictly after" and "false
\* instead of None", used by is_min_version_strict and is_min_date_or_false.)
BothGe(a, b) == IF IsSome(a) /\ IsSome(b) THEN Some(Ge3(a[1], b[1])) ELSE None
BothLe(a, b) == IF IsSome(a) /\ IsSome(b) THEN Some(Le3(a[1], b[1])) ELSE None
BothEq(a, b) == IF IsSome(a) /\ IsSome(b) THEN Some(Eq3(a[1], b[1])) ELSE None
BothGt(a, b) == IF IsSome(a) /\ IsSome(b) THEN Some(Lt3(b[1], a[1])) ELSE None
BothGeOrFalse(a, b) == IF IsSome(a) /\ IsSome(b) THEN Some(Ge3(a[1], b[1])) ELSE Some(FALSE)

is_min_date_or_false(min_date) == BothGeOrFalse(DateRead, DateParse(min_date))
is_min_date(min_date) == BothGe(DateRead, DateParse(min_date))
is_max_date(max_date) == BothLe(DateRead, DateParse(max_date))
is_exact_date(d) == BothEq(DateRead, DateParse(d))

is_min_version_strict(min_version) == BothGt(VersionRead, VersionParse(min_version))
is_min_version(min_version) == BothGe(VersionRead, VersionParse(min_version))
is_max_version(max_version) == BothLe(VersionRead, VersionParse(max_version))
is_exact_version(v) == BothEq(VersionRead, VersionParse(v))

\* Channel::read().map(|c| c.supports_features())
\* (is_feature_flaggable_by_triple: the variant that goes through triple()
\* and so needs the date too.)
MapSupportsFeatures(c) == IF c = None THEN None ELSE Some(SupportsFeatures(c[1]))
ChannelOfTriple(t) == IF t = None THEN None ELSE Some(t[1][2])

is_feature_flaggable_by_triple == MapSupportsFeatures(ChannelOfTriple(triple))
is_feature_flaggable == MapSupportsFeatures(ChannelRead)

QueryResult(q, b) ==
    CASE q = "is_min_date" -> is_min_date(b)
      [] q = "is_max_date" -> is_max_date(b)
      [] q = "is_exact_date" -> is_exact_date(b)
      [] q = "is_min_version" -> is_min_version(b)
      [] q = "is_max_version" -> is_max_version(b)
      [] q = "is_exact_version" -> is_exact_version(b)

-----------------------------------------------------------------------------
(* triple() and is_feature_flaggable() against what rustc prints *)

MaxTripleLines == 2

\* The text of the crate's documentation scenario for rustc 1.50.0.
Rustc_1_50_0_Text ==
    EndLines(<<HeaderHash(V_1_50_0, Hash_cb75ad5db, D_2021_02_10), BinaryLine,
               CommitDateLine(D_2021_02_10), ReleaseLine(V_1_50_0)>>)

TripleLib ==
    { HeaderHash(V_1_50_0, Hash_cb75ad5db, D_2021_02_10),
      CommitDateLine(D_2021_02_10),
      CommitDateLine(Unknown),
      CommitDateLine(NotADate) }
    \cup {ReleaseLine(V) : V \in {V_1_20_0_nightly, V_1_20_0_dev, V_1_20_0_beta,
                                  V_1_20_0, V_1_20, V_1_20_0_dev_beta,
                                  V_1_20_0_dev_beta_nightly, <<>>}}

TripleTexts ==
    {Rustc_1_50_0_Text} \cup {JoinLines(ls) : ls \in SeqsUpTo(TripleLib, MaxTripleLines)}

InitTriple ==
    /\ out \in {None} \cup {Some(s) : s \in TripleTexts}
    /\ noise = <<>>
    /\ bound = <<>>
    /\ pc = "idle"
    /\ rest = <<>>
    /\ version = None
    /\ date = None
    /\ ret = [o \in Ops |-> NotRun]

\* triple() runs rustc once, in get_version_and_date.
Triple ==
    /\ pc = "idle"
    /\ ~ret["triple"].ran
    /\ ret' = [ret EXCEPT !["triple"] = Returned(triple, 1)]
    /\ UNCHANGED <<out, noise, bound, pc, rest, version, date>>

\* is_feature_flaggable() runs rustc once, in Channel::read.
IsFeatureFlaggable ==
    /\ pc = "idle"
    /\ ~ret["is_feature_flaggable"].ran
    /\ ret' = [ret EXCEPT !["is_feature_flaggable"] = Returned(is_feature_flaggable, 1)]
    /\ UNCHANGED <<out, noise, bound, pc, rest, version, date>>

NextTriple == Triple \/ IsFeatureFlaggable

SpecTriple == InitTriple /\ [][NextTriple]_vars

-----------------------------------------------------------------------------
(* The six queries against what rustc prints and a bound *)

MaxQueryLines == 1

QueryLib ==
    { HeaderHash(V_1_50_0, Hash_cb75ad5db, D_2021_02_10),
      HeaderDate(V_1_9_0_beta, D_2016_12_18),
      HeaderBare(V_1_9_0_beta),
      ReleaseLine(V_1_20),
      CommitDateLine(Unknown) }

QueryTexts ==
    {Rustc_1_50_0_Text} \cup {JoinLines(ls) : ls \in SeqsUpTo(QueryLib, MaxQueryLines)}

Bounds ==
    { V_1_50_0, V_1_49_0, V_1_10_0, V_1_50_0_nightly, V_1_20,
      D_2021_02_10, D_2020_01_01, D_2017_01_09, NotADate }

InitQuery ==
    /\ out \in {None} \cup {Some(s) : s \in QueryTexts}
    /\ noise = <<>>
    /\ bound \in Bounds
    /\ pc = "idle"
    /\ rest = <<>>
    /\ version = None
    /\ date = None
    /\ ret = [o \in Ops |-> NotRun]

\* Each query runs rustc once, in Date::read or Version::read.
Query(q) ==
    /\ pc = "idle"
    /\ ~ret[q].ran
    /\ ret' = [ret EXCEPT ![q] = Returned(QueryResult(q, bound), 1)]
    /\ UNCHANGED <<out, noise, bound, pc, rest, version, date>>

IsMinDate == Query("is_min_date")
IsMaxDate == Query("is_max_date")
IsExactDate == Query("is_exact_date")
IsMinVersion == Query("is_min_version")
IsMaxVersion == Query("is_max_version")
IsExactVersion == Query("is_exact_version")

NextQuery ==
    \/ IsMinDate \/ IsMaxDate \/ IsExactDate
    \/ IsMinVersion \/ IsMaxVersion \/ IsExactVersion

SpecQuery == InitQuery /\ [][NextQuery]_vars

-----------------------------------------------------------------------------
(* Properties of the simple parse (SpecSimple) *)

\* C7: on a single line "rustc V" the simple parse returns version V and no
\* date; on "rustc V (D)" and on "rustc V (HASH D)" it returns version V and
\* date D, the parentheses and the hash dropped.
C7_SimpleWellFormed ==
    ret["simple"].ran =>
        \A V \in VersionTokens :
            /\ Text = HeaderBare(V) => ret["simple"].val = <<Some(V), None>>
            /\ \A D \in DateTokens :
                /\ Text = HeaderDate(V, D) => ret["simple"].val = <<Some(V), Some(D)>>
                /\ \A H \in HashTokens :
                    Text = HeaderHash(V, H, D) => ret["simple"].val = <<Some(V), Some(D)>>

C7_Witness ==
    /\ ret["simple"].ran
    /\ Text = HeaderHash(V_1_20_0_nightly, Hash_d84693b93, D_2017_07_09)
    /\ ret["simple"].val = <<Some(V_1_20_0_nightly), Some(D_2017_07_09)>>

\* C8 as stated: on a text of several lines the simple parse returns what it
\* returns on the text's first line alone.
C8_FirstLineOnly ==
    (ret["simple"].ran /\ Len(Lines(Text)) > 1) =>
        ret["simple"].val = version_and_date_from_rustc_version(FirstLineOf(Text))

\* C8 amended: on a text of several lines the simple parse returns what it
\* returns on the text's last line alone.
C8_LastLineOnly ==
    (ret["simple"].ran /\ Len(Lines(Text)) > 1) =>
        ret["simple"].val = version_and_date_from_rustc_version(LastLineOf(Text))

C8_Witness ==
    /\ ret["simple"].ran
    /\ Text = JoinLines(<<HeaderBare(V_1_18_0), HeaderDate(V_1_20, D_2018_09_20)>>)
    /\ ret["simple"].val = <<Some(V_1_20), Some(D_2018_09_20)>>

-----------------------------------------------------------------------------
(* Properties of the verbose parse (SpecVerbose) *)

Max(S) == CHOOSE i \in S : \A j \in S : j <= i
Min(S) == CHOOSE i \in S : \A j \in S : i <= j
After(line, label) == SubSeq(line, Len(label) + 1, Len(line))
LinesWith(ls, label) == {i \in 1..Len(ls) : StartsWith(ls[i], label)}

\* C1: lines that start with none of "rustc ", "release: ", "commit-date: ",
\* put before a text, do not change what the verbose parse returns.
C1_NoiseInvariance ==
    (/\ ret["verbose"].ran
     /\ \A i \in 1..Len(noise) :
            /\ ~StartsWith(noise[i], RustcSp)
            /\ ~StartsWith(noise[i], ReleaseLabel)
            /\ ~StartsWith(noise[i], CommitDateLabel))
    => ret["verbose"].val = version_and_date_from_rustc_verbose_version(Text)

C1_Witness ==
    /\ ret["verbose"].ran
    /\ noise = <<RustcNoteLine>>
    /\ Text = JoinLines(<<HeaderHash(V_1_50_0, Hash_cb75ad5db, D_2021_02_10),
                          CommitDateLine(D_2021_02_10), ReleaseLine(V_1_50_0)>>)
    /\ ret["verbose"].val = <<Some(V_1_50_0), Some(D_2021_02_10)>>

\* C2: when some line starts with "release: ", the version returned is the
\* text after the label on the last such line, wherever the headers stand.
C2_ReleaseOverride ==
    ret["verbose"].ran =>
        LET ls == Lines(NoisyText)
            rel == LinesWith(ls, ReleaseLabel)
        IN rel # {} => ret["verbose"].val[1] = Some(After(ls[Max(rel)], ReleaseLabel))

C2_Witness ==
    /\ ret["verbose"].ran
    /\ Text = JoinLines(<<ReleaseLine(V_1_5_1_beta), ReleaseLine(V_1_50_0),
                          HeaderBare(V_1_20_0_nightly)>>)
    /\ ret["verbose"].val[1] = Some(V_1_50_0)

\* C3: when the only commit-date lines are "commit-date: unknown", no date is
\* returned, whatever a header yields; and a commit-date line gives no date
\* only when the text after its label is exactly "unknown", and that text as
\* the date otherwise (read off a text whose last line is a commit-date line).
C3_UnknownCommitDate ==
    ret["verbose"].ran =>
        LET ls == Lines(NoisyText)
            cd == LinesWith(ls, CommitDateLabel)
        IN /\ (cd # {} /\ \A i \in cd : ls[i] = CommitDateLine(Unknown))
                => ret["verbose"].val[2] = None
           /\ (ls # <<>> /\ Len(ls) \in cd)
                => ret["verbose"].val[2] =
                       IF After(ls[Len(ls)], CommitDateLabel) = Unknown
                       THEN None
                       ELSE Some(After(ls[Len(ls)], CommitDateLabel))

\* The first Some of a sequence of options.
FirstSome(os) ==
    LET some == {i \in 1..Len(os) : IsSome(os[i])}
    IN IF some = {} THEN None ELSE os[Min(some)]

C10_Result ==
    ret["verbose"].ran =>
        LET ls == Lines(NoisyText)
            simple == [i \in 1..Len(ls) |->
                          IF StartsWith(ls[i], RustcSp)
                          THEN version_and_date_from_rustc_version(ls[i])
                          ELSE <<None, None>>]
        IN (LinesWith(ls, ReleaseLabel) = {} /\ LinesWith(ls, CommitDateLabel) = {})
            => /\ ret["verbose"].val[1] = FirstSome([i \in 1..Len(ls) |-> simple[i][1]])
               /\ ret["verbose"].val[2] = FirstSome([i \in 1..Len(ls) |-> simple[i][2]])

C10_Step ==
    (pc = "verbose" /\ pc' = "verbose" /\ rest # <<>>) =>
        LET line == Head(rest)
        IN IF StartsWith(line, RustcSp)
           THEN /\ IsSome(version) => version' = version
                /\ IsSome(date) => date' = date
           ELSE IF StartsWith(line, ReleaseLabel)
           THEN version' = Some(After(line, ReleaseLabel)) /\ date' = date
           ELSE IF StartsWith(line, CommitDateLabel)
           THEN version' = version
           ELSE version' = version /\ date' = date

\* C10: in the pass over the lines a header line never changes a version or a
\* date already set, a release line touches the version only, a commit-date
\* line the date only, any other line nothing; so without release and
\* commit-date lines the result is the version of the first header that has
\* one and the date of the first header that has one.
C10_FirstHeaderWins == [](C10_Result) /\ [][C10_Step]_vars

C10_Witness ==
    /\ ret["verbose"].ran
    /\ Text = JoinLines(<<RustcSp, HeaderBare(V_1_20_0_nightly),
                          HeaderDate(V_1_18_0, D_2017_07_09)>>)
    /\ ret["verbose"].val = <<Some(V_1_20_0_nightly), Some(D_2017_07_09)>>


-----------------------------------------------------------------------------
(* Properties of triple() and is_feature_flaggable() (SpecTriple) *)

\* What the verbose parse yields from rustc's text; <<None, None>> without one.
Parsed == IF IsSome(out) THEN version_and_date_from_rustc_verbose_version(Text)
          ELSE <<None, None>>

\* C4: triple() runs rustc once; it returns a triple exactly when rustc gave
\* a text, the verbose parse of it has a version and a date, and the three
\* parses succeed on them, and then the triple is what they yield; on the
\* text of rustc 1.50.0 it returns Version(1,50,0), Stable, Date(2021,2,10).
C4_Triple ==
    ret["triple"].ran =>
        /\ ret["triple"].calls = 1
        /\ IsSome(ret["triple"].val) <=>
              /\ IsSome(out)
              /\ IsSome(Parsed[1])
              /\ IsSome(Parsed[2])
              /\ IsSome(VersionParse(Parsed[1][1]))
              /\ IsSome(ChannelParse(Parsed[1][1]))
              /\ IsSome(DateParse(Parsed[2][1]))
        /\ IsSome(ret["triple"].val) =>
              ret["triple"].val[1] = << VersionParse(Parsed[1][1])[1],
                                        ChannelParse(Parsed[1][1])[1],
                                        DateParse(Parsed[2][1])[1] >>
        /\ out = Some(Rustc_1_50_0_Text) =>
              ret["triple"].val = Some(<< <<1, 50, 0>>, "Stable", <<2021, 2, 10>> >>)

C4_Witness ==
    /\ ret["triple"].ran
    /\ out = Some(Rustc_1_50_0_Text)
    /\ ret["triple"].val = Some(<< <<1, 50, 0>>, "Stable", <<2021, 2, 10>> >>)

\* Nightly before beta before dev, else stable.
ChannelByOrder(text) ==
    IF Contains(text, Nightly) THEN "Nightly"
    ELSE IF Contains(text, Beta) THEN "Beta"
    ELSE IF Contains(text, Dev) THEN "Dev"
    ELSE "Stable"

\* C9: the channel of a non-empty version text is Nightly, Beta, Dev or
\* Stable in that order of precedence; is_feature_flaggable() returns nothing
\* exactly when there is no version text, whatever the date, and otherwise
\* true exactly for Nightly and Dev.
C9_FeatureFlaggable ==
    /\ (ret["triple"].ran /\ IsSome(ret["triple"].val) /\ Parsed[1] # Some(<<>>))
          => ret["triple"].val[1][2] = ChannelByOrder(Parsed[1][1])
    /\ ret["is_feature_flaggable"].ran =>
          /\ ret["is_feature_flaggable"].val = None <=> Parsed[1] = None
          /\ (IsSome(Parsed[1]) /\ Parsed[1] # Some(<<>>)) =>
                ret["is_feature_flaggable"].val =
                    Some(ChannelByOrder(Parsed[1][1]) \in {"Nightly", "Dev"})
          /\ Parsed[1] \in {Some(V_1_20_0_nightly), Some(V_1_20_0_dev)}
                => ret["is_feature_flaggable"].val = Some(TRUE)
          /\ Parsed[1] \in {Some(V_1_20_0_beta), Some(V_1_20_0)}
                => ret["is_feature_flaggable"].val = Some(FALSE)

C9_Witness ==
    /\ ret["is_feature_flaggable"].ran
    /\ Parsed = <<Some(V_1_20_0_dev_beta), None>>
    /\ ret["is_feature_flaggable"].val = Some(FALSE)

-----------------------------------------------------------------------------
(* Properties of the six queries (SpecQuery) *)

\* a before b in the order of (major, minor, patch) or (year, month, day)
Before(a, b) == \E k \in 1..3 : a[k] < b[k] /\ \A j \in 1..(k - 1) : a[j] = b[j]

DateQueries == {"is_min_date", "is_max_date", "is_exact_date"}
VersionQueries == {"is_min_version", "is_max_version", "is_exact_version"}

Compared(min, max, exact, cur, bnd) ==
    /\ ret[min].ran => ret[min].val = Some(~Before(cur, bnd))
    /\ ret[max].ran => ret[max].val = Some(~Before(bnd, cur))
    /\ ret[exact].ran => ret[exact].val = Some(cur = bnd)

ExactIsMinAndMax(min, max, exact) ==
    (ret[min].ran /\ ret[max].ran /\ ret[exact].ran) =>
        (ret[exact].val = Some(TRUE)
            <=> (ret[min].val = Some(TRUE) /\ ret[max].val = Some(TRUE)))

\* C5: when the current value and the bound both parse, the min, max and
\* exact queries return cur >= bound, cur <= bound and cur = bound in the
\* order of the numeric triple; and exact is true exactly when min and max are.
C5_Comparisons ==
    /\ LET cur == VersionRead
           bnd == VersionParse(bound)
       IN (IsSome(cur) /\ IsSome(bnd)) =>
              Compared("is_min_version", "is_max_version", "is_exact_version",
                       cur[1], bnd[1])
    /\ LET cur == DateRead
           bnd == DateParse(bound)
       IN (IsSome(cur) /\ IsSome(bnd)) =>
              Compared("is_min_date", "is_max_date", "is_exact_date", cur[1], bnd[1])
    /\ ExactIsMinAndMax("is_min_version", "is_max_version", "is_exact_version")
    /\ ExactIsMinAndMax("is_min_date", "is_max_date", "is_exact_date")

C5_Witness ==
    /\ out = Some(HeaderDate(V_1_9_0_beta, D_2016_12_18))
    /\ bound = V_1_10_0
    /\ ret["is_min_version"] = Returned(Some(FALSE), 1)
    /\ ret["is_max_version"] = Returned(Some(TRUE), 1)
    /\ ret["is_exact_version"] = Returned(Some(FALSE), 1)

\* C6: each query returns nothing when rustc fails, when the current date or
\* version cannot be read or parsed, or when the bound does not parse ("1.20"
\* as a version, "not-a-date" as a date), and a boolean otherwise.
C6_AbsentOrBoolean ==
    LET noDate == out = None \/ DateRead = None \/ DateParse(bound) = None
        noVersion == out = None \/ VersionRead = None \/ VersionParse(bound) = None
    IN \A q \in Queries :
           ret[q].ran =>
               /\ ret[q].val \in {None, Some(TRUE), Some(FALSE)}
               /\ q \in DateQueries =>
                     /\ ret[q].val = None <=> noDate
                     /\ bound = NotADate => ret[q].val = None
               /\ q \in VersionQueries =>
                     /\ ret[q].val = None <=> noVersion
                     /\ bound = V_1_20 => ret[q].val = None

C6_Witness ==
    /\ out = Some(Rustc_1_50_0_Text)
    /\ bound = NotADate
    /\ ret["is_min_date"] = Returned(None, 1)
    /\ ret["is_min_version"] = Returned(None, 1)

====
